---- MODULE Spec2Model ----
(***************************************************************************)
(* Model of the MultiSelect component                                      *)
(* (src/src/components/profile/ui/MultiSelect.tsx).                        *)
(*                                                                         *)
(* A string is a sequence of one-character strings, so that toLowerCase    *)
(* and String.prototype.includes are computed character by character.      *)
(* Every action is one browser or host event followed by the re-render it  *)
(* causes: the render recomputes filteredOptions and the overlay contents. *)
(***************************************************************************)
EXTENDS Integers, Sequences, FiniteSets, TLC

\* ---------------------------------------------------------------- bounds
MaxOptions == 2      \* longest options prop the host supplies
MaxSelected == 2     \* longest selectedValues prop the host starts with
MaxTermLen == 1      \* longest text typed into the search input

\* ------------------------------------------------------------ vocabulary
\* characters the user types into the search input
TermChars == {"a", "B"}

\* option texts the host draws from: "Ab", "a"
Words == {<<"A", "b">>, <<"a">>}

SeqsUpTo(S, n) == UNION {[1..k -> S] : k \in 0..n}

Keys == {"Escape", "Enter", "a"}

\* DOM nodes a mousedown can hit; all but "outside" are below dropdownRef
Targets == {"outside", "container", "chip", "input", "toggle", "row"}

VARIABLES
  mounted,         \* the component is in the tree
  options,         \* prop
  selectedValues,  \* prop (controlled by the host)
  isOpen,          \* useState(false)
  searchTerm,      \* useState('')
  filtered,        \* filteredOptions as computed by the last render
  emptyMessage,    \* text of the empty-state row of the overlay, "" if none
  listeners,       \* number of mousedown listeners on document
  lastEvent,       \* the event handled last
  onChangeCalls,   \* how often the last event called onChange
  onChangeArg,     \* argument of that call (<<>> if none)
  dupFreeStart,    \* the host's initial selectedValues had no duplicates
  prevOpen         \* isOpen as the last event found it

vars == <<mounted, options, selectedValues, isOpen, searchTerm, filtered,
          emptyMessage, listeners, lastEvent, onChangeCalls, onChangeArg,
          dupFreeStart, prevOpen>>

\* ------------------------------------------------------- pure functions
LowerChar(c) ==
  CASE c = "A" -> "a"
    [] c = "B" -> "b"
    [] OTHER -> c

\* String.prototype.toLowerCase
toLowerCase(s) == [i \in 1..Len(s) |-> LowerChar(s[i])]

\* String.prototype.includes: t occurs in s at some offset
includes(s, t) ==
  \E i \in 0..(Len(s) - Len(t)) : SubSeq(s, i + 1, i + Len(t)) = t

\* Array.prototype.includes
arrayIncludes(arr, v) == \E i \in 1..Len(arr) : arr[i] = v

\* variant: the match is case-sensitive
filteredOptionsNoLower(opts, term, sel) ==
  LET keep(option) == includes(option, term) /\ ~arrayIncludes(sel, option)
  IN  SelectSeq(opts, keep)

\* variant: selected values stay among the candidates
filteredOptionsKeepSelected(opts, term, sel) ==
  LET keep(option) == includes(toLowerCase(option), toLowerCase(term))
  IN  SelectSeq(opts, keep)

\* const filteredOptions = options.filter(...)
filteredOptions(opts, term, sel) ==
  LET keep(option) == /\ includes(toLowerCase(option), toLowerCase(term))
                      /\ ~arrayIncludes(sel, option)
  IN  SelectSeq(opts, keep)

\* variant: the message is chosen by options, not by the search term
overlayMessageByOptions(open, opts, fo, term) ==
  IF open /\ Len(fo) = 0
    THEN (IF opts = <<>> THEN "No options available" ELSE "No options found")
    ELSE ""

\* the empty-state row of the overlay
overlayMessage(open, opts, fo, term) ==
  IF open /\ Len(fo) = 0
    THEN (IF term # <<>> THEN "No options found" ELSE "No options available")
    ELSE ""

\* the render that follows a state or prop change
Render(open, opts, term, sel) ==
  /\ filtered' = filteredOptions(opts, term, sel)
  /\ emptyMessage' = overlayMessage(open, opts, filteredOptions(opts, term, sel), term)

\* dropdownRef.current.contains(event.target)
contains(target) == target # "outside"

\* variant: only the first occurrence is removed
handleRemoveFirstOnly(sel, option) ==
  LET i == CHOOSE k \in 1..Len(sel) : sel[k] = option /\ \A j \in 1..(k - 1) : sel[j] # option
  IN  SubSeq(sel, 1, i - 1) \o SubSeq(sel, i + 1, Len(sel))

\* selectedValues.filter(value => value !== option)
handleRemoveArg(sel, option) ==
  LET keep(value) == value # option
  IN  SelectSeq(sel, keep)

\* variant: the new value is put first
handleSelectPrepend(sel, option) == <<option>> \o sel

\* [...selectedValues, option]
handleSelectArg(sel, option) == sel \o <<option>>

NoDup(s) == \A i, j \in 1..Len(s) : s[i] = s[j] => i = j

\* ------------------------------------------------------------------ Init
Init ==
  /\ mounted = TRUE
  /\ options \in SeqsUpTo(Words, MaxOptions)
  /\ selectedValues \in SeqsUpTo(Words, MaxSelected)
  /\ isOpen = FALSE
  /\ searchTerm = <<>>
  /\ filtered = filteredOptions(options, <<>>, selectedValues)
  /\ emptyMessage = ""
  /\ listeners = 1
  /\ lastEvent = "mount"
  /\ onChangeCalls = 0
  /\ onChangeArg = <<>>
  /\ dupFreeStart = NoDup(selectedValues)
  /\ prevOpen = FALSE

\* ---------------------------------------------------------------- host
\* the host stores the value onChange hands it and feeds it back as the
\* selectedValues prop of the next render
onChange(next) ==
  /\ selectedValues' = next
  /\ onChangeCalls' = 1
  /\ onChangeArg' = next

noOnChange ==
  /\ onChangeCalls' = 0
  /\ onChangeArg' = <<>>
  /\ UNCHANGED selectedValues

\* option sequences one host edit away: an entry appended, or the last dropped
HostEdits(opts) ==
  {opts \o <<w>> : w \in IF Len(opts) < MaxOptions THEN Words ELSE {}}
    \cup (IF opts = <<>> THEN {} ELSE {SubSeq(opts, 1, Len(opts) - 1)})

\* the host re-renders the component with another options prop
HostSetOptions ==
  /\ mounted
  /\ \E opts \in HostEdits(options) :
       /\ options' = opts
       /\ Render(isOpen, opts, searchTerm, selectedValues)
  /\ lastEvent' = "props"
  /\ noOnChange
  /\ UNCHANGED <<mounted, isOpen, searchTerm, listeners, dupFreeStart>>
  /\ prevOpen' = isOpen

\* ------------------------------------------------------------ lifecycle
\* variant: the effect returns no cleanup
effectCleanupMissing == listeners

\* cleanup of the mount effect: document.removeEventListener
effectCleanup == listeners - 1

\* useState defaults and the [] effect: document.addEventListener
Mount ==
  /\ ~mounted
  /\ mounted' = TRUE
  /\ isOpen' = FALSE
  /\ searchTerm' = <<>>
  /\ listeners' = listeners + 1
  /\ Render(FALSE, options, <<>>, selectedValues)
  /\ lastEvent' = "mount"
  /\ noOnChange
  /\ UNCHANGED <<options, dupFreeStart>>
  /\ prevOpen' = FALSE

Unmount ==
  /\ mounted
  /\ mounted' = FALSE
  /\ listeners' = effectCleanup
  /\ lastEvent' = "unmount"
  /\ noOnChange
  /\ UNCHANGED <<options, isOpen, searchTerm, filtered, emptyMessage, dupFreeStart>>
  /\ prevOpen' = isOpen

\* ---------------------------------------------------------------- events
\* variant: no contains() test
handleClickOutsideAlways(target) == FALSE

\* handleClickOutside: the value setIsOpen receives, or isOpen if not called
handleClickOutside(target) ==
  IF mounted /\ ~contains(target) THEN FALSE ELSE isOpen

\* a mousedown reaches document; every registered listener runs
MouseDown ==
  /\ \E target \in Targets :
       /\ contains(target) => mounted
       /\ isOpen' = IF listeners > 0 THEN handleClickOutside(target) ELSE isOpen
       /\ lastEvent' = IF contains(target) THEN "mousedown-inside" ELSE "mousedown-outside"
  /\ IF mounted
       THEN Render(isOpen', options, searchTerm, selectedValues)
       ELSE UNCHANGED <<filtered, emptyMessage>>
  /\ noOnChange
  /\ UNCHANGED <<mounted, options, searchTerm, listeners, dupFreeStart>>
  /\ prevOpen' = isOpen

\* onClick of the field's container: setIsOpen(true)
ContainerClick ==
  /\ mounted
  /\ isOpen' = TRUE
  /\ Render(TRUE, options, searchTerm, selectedValues)
  /\ lastEvent' = "container"
  /\ noOnChange
  /\ UNCHANGED <<mounted, options, searchTerm, listeners, dupFreeStart>>
  /\ prevOpen' = isOpen

\* onClick of the toggle button: stopPropagation, toggleDropdown
toggleDropdown ==
  /\ mounted
  /\ isOpen' = ~isOpen
  /\ searchTerm' = <<>>
  /\ Render(~isOpen, options, <<>>, selectedValues)
  /\ lastEvent' = "toggle"
  /\ noOnChange
  /\ UNCHANGED <<mounted, options, listeners, dupFreeStart>>
  /\ prevOpen' = isOpen

\* onClick of a candidate row of the overlay
handleSelect ==
  /\ mounted
  /\ isOpen
  /\ \E i \in 1..Len(filtered) :
       /\ onChange(handleSelectArg(selectedValues, filtered[i]))
       /\ searchTerm' = <<>>
       /\ Render(isOpen, options, <<>>, handleSelectArg(selectedValues, filtered[i]))
  /\ lastEvent' = "select"
  /\ UNCHANGED <<mounted, options, isOpen, listeners, dupFreeStart>>
  /\ prevOpen' = isOpen

\* onClick of a chip's remove button: stopPropagation, handleRemove
handleRemove ==
  /\ mounted
  /\ \E i \in 1..Len(selectedValues) :
       /\ onChange(handleRemoveArg(selectedValues, selectedValues[i]))
       /\ Render(isOpen, options, searchTerm, handleRemoveArg(selectedValues, selectedValues[i]))
  /\ lastEvent' = "remove"
  /\ UNCHANGED <<mounted, options, isOpen, searchTerm, listeners, dupFreeStart>>
  /\ prevOpen' = isOpen

\* onChange of the search input: setSearchTerm(e.target.value)
InputChange ==
  /\ mounted
  /\ isOpen
  /\ \E t \in SeqsUpTo(TermChars, MaxTermLen) :
       /\ t # searchTerm
       /\ searchTerm' = t
       /\ Render(isOpen, options, t, selectedValues)
  /\ lastEvent' = "type"
  /\ noOnChange
  /\ UNCHANGED <<mounted, options, isOpen, listeners, dupFreeStart>>
  /\ prevOpen' = isOpen

\* variant: every key closes
handleKeyDownAnyKey(key) == FALSE

\* handleKeyDown: the value of isOpen after the key
handleKeyDownOpen(key) == IF key = "Escape" THEN FALSE ELSE isOpen

\* onKeyDown of the search input
handleKeyDown ==
  /\ mounted
  /\ isOpen
  /\ \E key \in Keys :
       /\ isOpen' = handleKeyDownOpen(key)
       /\ lastEvent' = IF key = "Escape" THEN "escape" ELSE "key"
  /\ Render(isOpen', options, searchTerm, selectedValues)
  /\ noOnChange
  /\ UNCHANGED <<mounted, options, searchTerm, listeners, dupFreeStart>>
  /\ prevOpen' = isOpen

Next ==
  \/ HostSetOptions
  \/ Mount
  \/ Unmount
  \/ MouseDown
  \/ ContainerClick
  \/ toggleDropdown
  \/ handleSelect
  \/ handleRemove
  \/ InputChange
  \/ handleKeyDown

Spec == Init /\ [][Next]_vars

\* ================================================================ claims
\* the k-th element of r is the k-th entry of s whose index is in I
IsRestriction(r, s, I) ==
  /\ Len(r) = Cardinality(I)
  /\ \A k \in 1..Len(r) :
       \E i \in I : Cardinality({j \in I : j < i}) = k - 1 /\ r[k] = s[i]

\* t is, up to case, a contiguous piece of s
ContainsIgnoringCase(s, t) ==
  \E a \in 0..Len(s) : \E b \in a..Len(s) :
    toLowerCase(SubSeq(s, a + 1, b)) = toLowerCase(t)

Unselected == {i \in 1..Len(options) : \A j \in 1..Len(selectedValues) : selectedValues[j] # options[i]}

\* C1: the candidate list of the last render is options, in order, restricted
\* to the entries that are not selected and contain the search term up to
\* case; with an empty search term it is options minus selectedValues.
C1_FilteredIsRestriction ==
  /\ IsRestriction(filtered, options,
                   {i \in Unselected : ContainsIgnoringCase(options[i], searchTerm)})
  /\ searchTerm = <<>> => IsRestriction(filtered, options, Unselected)

C1_Witness ==
  /\ mounted /\ isOpen
  /\ options = << <<"a">>, <<"A", "b">> >>
  /\ selectedValues = << <<"a">> >>
  /\ searchTerm = <<"B">>
  /\ filtered = << <<"A", "b">> >>

\* C2: selecting a visible candidate c calls onChange once with
\* selectedValues followed by c, empties the search term, keeps the dropdown
\* open, and c is not a candidate of the render that follows.
C2_SelectAppends ==
  [][handleSelect =>
       /\ isOpen /\ isOpen'
       /\ searchTerm' = <<>>
       /\ onChangeCalls' = 1
       /\ \E i \in 1..Len(filtered) :
            /\ onChangeArg' = selectedValues \o <<filtered[i]>>
            /\ selectedValues' = onChangeArg'
            /\ \A k \in 1..Len(filtered') : filtered'[k] # filtered[i]]_vars

C2_Witness ==
  /\ lastEvent = "select" /\ prevOpen /\ isOpen
  /\ onChangeCalls = 1
  /\ onChangeArg = << <<"a">>, <<"A", "b">> >>
  /\ selectedValues = onChangeArg

\* C3: removing the chip of v, open or closed, calls onChange with
\* selectedValues without any occurrence of v, the rest in order, and leaves
\* isOpen and the search term as they were.
C3_RemoveFiltersAll ==
  [][handleRemove =>
       /\ isOpen' = isOpen
       /\ searchTerm' = searchTerm
       /\ onChangeCalls' = 1
       /\ \E i \in 1..Len(selectedValues) :
            IsRestriction(onChangeArg', selectedValues,
                          {j \in 1..Len(selectedValues) : selectedValues[j] # selectedValues[i]})]_vars

C3_Witness ==
  /\ lastEvent = "remove" /\ ~prevOpen /\ ~isOpen
  /\ onChangeCalls = 1
  /\ onChangeArg = << <<"a">> >>
  /\ ~dupFreeStart

\* C4: every step from Closed to Open ends with an empty search term.
C4_OpenResetsSearch ==
  [][(mounted /\ mounted' /\ ~isOpen /\ isOpen') => searchTerm' = <<>>]_vars

\* C5: a mousedown outside the subtree while Open closes the dropdown and
\* calls no onChange; a mousedown inside the subtree leaves isOpen alone.
C5_OutsideCloses ==
  [][MouseDown =>
       /\ (lastEvent' = "mousedown-outside" /\ mounted /\ isOpen) => ~isOpen'
       /\ lastEvent' = "mousedown-inside" => isOpen' = isOpen
       /\ onChangeCalls' = 0
       /\ selectedValues' = selectedValues]_vars

C5_Witness ==
  /\ mounted /\ lastEvent = "mousedown-outside"
  /\ prevOpen /\ ~isOpen
  /\ selectedValues # <<>>

\* C6: with a host that feeds every onChange value back, a selection that
\* started without duplicates never holds a value twice, and no selected
\* value is among the candidates.
C6_NoDuplicateSelection ==
  /\ dupFreeStart => NoDup(selectedValues)
  /\ \A k \in 1..Len(filtered) : \A j \in 1..Len(selectedValues) :
       filtered[k] # selectedValues[j]

C6_Witness ==
  /\ dupFreeStart /\ lastEvent = "select"
  /\ Len(selectedValues) = 2
  /\ Len(options) = 2 /\ options[1] = options[2]

\* C7 (as claimed): with options empty and the dropdown open the message is
\* "No options available" whatever the search term; "No options found" needs
\* options to be non-empty.
C7_MessageByOptions ==
  /\ (mounted /\ isOpen /\ options = <<>>) => emptyMessage = "No options available"
  /\ emptyMessage = "No options found" => options # <<>>

\* C7 (amended): with the dropdown open and no candidate left, the message
\* is "No options available" for an empty search term and "No options found"
\* for a non-empty one; otherwise there is no message.
C7_MessageBySearchTerm ==
  /\ (isOpen /\ filtered = <<>> /\ searchTerm = <<>>) => emptyMessage = "No options available"
  /\ (isOpen /\ filtered = <<>> /\ searchTerm # <<>>) => emptyMessage = "No options found"
  /\ (~isOpen \/ filtered # <<>>) => emptyMessage = ""

C7_Witness ==
  /\ mounted /\ isOpen
  /\ options = <<>>
  /\ searchTerm # <<>>
  /\ emptyMessage = "No options found"

\* C8: in every Closed state the search term is empty.
C8_ClosedHasEmptySearch ==
  (mounted /\ ~isOpen) => searchTerm = <<>>

\* C9: exactly one mousedown listener is on document while the component is
\* mounted and none after unmount, and no step taken while unmounted changes
\* the component's state.
C9_ListenerWhileMounted ==
  /\ [](listeners = IF mounted THEN 1 ELSE 0)
  /\ [][(~mounted /\ ~mounted') =>
          UNCHANGED <<isOpen, searchTerm, filtered, emptyMessage, selectedValues>>]_vars

C9_Witness ==
  /\ ~mounted /\ lastEvent = "mousedown-outside"
  /\ listeners = 0
  /\ isOpen

\* C10: a mount leaves the dropdown Closed; it goes from Open to Closed only
\* on an outside mousedown, Escape or the toggle; typing, selecting, removing
\* and a container click keep it Open; the toggle opens a Closed dropdown.
C10_CloseOnlyBy ==
  /\ [](lastEvent = "mount" => ~isOpen)
  /\ [][(mounted /\ mounted') =>
          /\ (isOpen /\ ~isOpen') =>
               lastEvent' \in {"mousedown-outside", "escape", "toggle"}
          /\ (isOpen /\ lastEvent' \in {"type", "select", "remove", "container"}) => isOpen'
          /\ (~isOpen /\ lastEvent' = "toggle") => isOpen']_vars

C10_Witness ==
  /\ mounted /\ lastEvent = "key"
  /\ prevOpen /\ isOpen
  /\ searchTerm # <<>>

====
